---- MODULE Spec2Model ----
(***************************************************************************)
(* Access-token acquisition and caching lifecycle of the ms365 MCP server:  *)
(* auth.py (token cache file, silent / interactive acquisition), server.py *)
(* (configuration check, the process-wide token slot, the tool handlers)    *)
(* and graph_client.py (the authenticated request).                        *)
(***************************************************************************)
EXTENDS Integers, Sequences, FiniteSets, Bags, TLC

\* ------------------------------------------------------------------ bounds

\* Largest value of the clock.
MaxTime == 1
\* Lifetime the identity provider gives a fresh access token.
TokenLifetime == 1
\* Number of get_access_token() calls explored in one process.
MaxAcquire == 2
\* Number of tool invocations that may await the Graph API at once.
NTasks == 2

\* ------------------------------------------------------- strings and dicts

\* auth.py SCOPES
SCOPES == <<"Mail.Read", "Mail.ReadWrite", "Mail.Send", "Calendars.Read", "User.Read">>

\* Access-token strings the identity provider hands out, in order of issue.
TokenNames == <<"tok1", "tok2", "tok3", "tok4", "tok5", "tok6", "tok7", "tok8">>

\* Identities a human can log in as.
Accounts == {"alice", "bob"}

\* Decimal rendering of the small numbers the cache blob holds.
DecTable == <<"0", "1", "2", "3", "4", "5", "6", "7", "8", "9", "10", "11", "12">>

Dec(n) == DecTable[n + 1]

IsDec(s) == \E n \in 0..(Len(DecTable) - 1) : DecTable[n + 1] = s

UnDec(s) == CHOOSE n \in 0..(Len(DecTable) - 1) : DecTable[n + 1] = s

\* A Python dict with string keys and string values is a function.
EmptyDict == [k \in {} |-> ""]

Has(d, k) == k \in DOMAIN d

\* dict.get(k, default)
Get(d, k, default) == IF k \in DOMAIN d THEN d[k] ELSE default

\* Python truthiness of Optional[str]: <<>> is None, <<s>> is the string s.
Truthy(opt) == opt # <<>> /\ opt[1] # ""

\* ------------------------------------------------------- the token cache

\* The cache file: whether it exists, and its content as a sequence of fields.
NoFile == [exists |-> FALSE, bytes |-> <<>>]

\* A SerializableTokenCache: one entry per account (home), with the cached
\* access token (tok, "" when none) and its expiry, and has_state_changed.
EmptyCache == [entries |-> <<>>, has_state_changed |-> FALSE]

RECURSIVE SerializeEntries(_)
SerializeEntries(es) ==
    IF es = <<>> THEN <<>>
    ELSE <<"acct", es[1].home, es[1].tok, Dec(es[1].exp)>> \o SerializeEntries(Tail(es))

\* serialize that keeps the first account only.
serialize_first(cache) ==
    SerializeEntries(IF cache.entries = <<>> THEN <<>> ELSE <<cache.entries[1]>>)

\* cache.serialize()
serialize(cache) == SerializeEntries(cache.entries)

\* Whether a blob parses: whole groups of four fields, tagged, with a number.
RECURSIVE WellFormed(_)
WellFormed(b) ==
    IF b = <<>> THEN TRUE
    ELSE /\ Len(b) >= 4
         /\ b[1] = "acct"
         /\ IsDec(b[4])
         /\ WellFormed(SubSeq(b, 5, Len(b)))

RECURSIVE ParseEntries(_)
ParseEntries(b) ==
    IF b = <<>> THEN <<>>
    ELSE <<[home |-> b[2], tok |-> b[3], exp |-> UnDec(b[4])]>>
         \o ParseEntries(SubSeq(b, 5, Len(b)))

\* cache.deserialize(text): raises on text that does not parse; the empty
\* text is the empty cache.
deserialize(b) ==
    IF WellFormed(b)
    THEN [raised |-> FALSE, cache |-> [entries |-> ParseEntries(b), has_state_changed |-> FALSE]]
    ELSE [raised |-> TRUE, cache |-> EmptyCache]

\* _load_cache without the os.path.exists() test: open() of a missing file raises.
_load_cache_unguarded(file) ==
    IF file.exists THEN deserialize(file.bytes)
    ELSE [raised |-> TRUE, cache |-> EmptyCache]

\* auth.py _load_cache
_load_cache(file) ==
    IF file.exists THEN deserialize(file.bytes)
    ELSE [raised |-> FALSE, cache |-> EmptyCache]

\* open(TOKEN_CACHE_FILE, "w") followed by f.write(blob). io is what the
\* filesystem does: "ok"; "open_fails" (the file is left as it was);
\* "write_fails" (open emptied the file and the write failed after the first
\* two fields of the blob).
WriteFile(file, blob, io) ==
    CASE io = "ok" -> [raised |-> FALSE, file |-> [exists |-> TRUE, bytes |-> blob]]
      [] io = "open_fails" -> [raised |-> TRUE, file |-> file]
      [] OTHER -> [raised |-> TRUE, file |-> [exists |-> TRUE, bytes |-> SubSeq(blob, 1, 2)]]

\* _save_cache without the has_state_changed test: it writes every time.
_save_cache_always(cache, file, io) ==
    WriteFile(file, serialize(cache), io) @@ [wrote |-> TRUE]

\* auth.py _save_cache
_save_cache(cache, file, io) ==
    IF cache.has_state_changed
    THEN WriteFile(file, serialize(cache), io) @@ [wrote |-> TRUE]
    ELSE [raised |-> FALSE, file |-> file, wrote |-> FALSE]

\* app.get_accounts(): the accounts of the cache, in order.
get_accounts(cache) == [i \in 1..Len(cache.entries) |-> cache.entries[i].home]

\* ------------------------------------------------- the identity provider

\* What the provider and the filesystem do during one get_access_token():
\*   silent  "refresh": the refresh token of the account is accepted;
\*           "none": a silent miss that is None; "error": one that is a dict
\*           describing the error
\*   grant   "fresh": a granted access token is a new non-empty string;
\*           "empty": the result carries access_token = ""
\*   inter   the outcome of the browser login
\*   pick    the account the human logs in as
\*   io      the outcome of writing the cache file
SilentKinds == {"refresh", "none", "error"}

InterKinds == {"token", "err_both", "err_code", "err_desc", "err_none"}

IOKinds == {"ok", "open_fails", "write_fails"}

AllInputs ==
    [silent : SilentKinds, grant : {"fresh", "empty"}, inter : InterKinds,
     pick : Accounts, io : IOKinds]

\* One input for each distinguishable course of a call: a field the call
\* cannot read is held at its first value.
Inputs ==
    { in \in AllInputs :
        /\ in.silent = "refresh" => in.inter = "token" /\ in.pick = "alice"
        /\ in.inter # "token" => in.grant = "fresh" /\ in.pick = "alice" /\ in.io = "ok" }

DefaultInput ==
    [silent |-> "refresh", grant |-> "fresh", inter |-> "token", pick |-> "alice", io |-> "ok"]

\* An Optional[dict] result: None, or the dict d.
NoneResult == [isNone |-> TRUE, d |-> EmptyDict]

Some(d) == [isNone |-> FALSE, d |-> d]

\* The access token a grant hands out and its expiry; grants is the sequence
\* of expiries of the tokens issued so far.
Granted(clk, grants, in) ==
    IF in.grant = "fresh"
    THEN [tok |-> TokenNames[Len(grants) + 1], exp |-> clk + TokenLifetime,
          grants |-> Append(grants, clk + TokenLifetime)]
    ELSE [tok |-> "", exp |-> 0, grants |-> grants]

\* The cache with the entry of account home set to (tok, exp), added when new.
Store(cache, home, tok, exp) ==
    LET e == [home |-> home, tok |-> tok, exp |-> exp]
        known == \E i \in 1..Len(cache.entries) : cache.entries[i].home = home
    IN [entries |-> IF known
                    THEN [i \in 1..Len(cache.entries) |->
                            IF cache.entries[i].home = home THEN e ELSE cache.entries[i]]
                    ELSE Append(cache.entries, e),
        has_state_changed |-> TRUE]

\* app.acquire_token_silent(scopes, account): the cached access token while
\* it is unexpired (nothing changes); otherwise a refresh, which stores the
\* new token; otherwise a miss.
acquire_token_silent(cache, account, clk, grants, in) ==
    LET e == CHOOSE x \in {cache.entries[i] : i \in 1..Len(cache.entries)} : x.home = account
        g == Granted(clk, grants, in)
    IN IF e.tok # "" /\ e.exp > clk
       THEN [result |-> Some([access_token |-> e.tok]), cache |-> cache, grants |-> grants]
       ELSE IF in.silent = "refresh"
       THEN [result |-> Some([access_token |-> g.tok]),
             cache |-> Store(cache, account, g.tok, g.exp), grants |-> g.grants]
       ELSE [result |-> IF in.silent = "none" THEN NoneResult
                        ELSE Some([error |-> "invalid_grant",
                                   error_description |-> "refresh token expired"]),
             cache |-> cache, grants |-> grants]

\* app.acquire_token_interactive(scopes, prompt): a login stores the token of
\* the picked account; a failed login returns a dict without access_token.
acquire_token_interactive(cache, clk, grants, in) ==
    LET g == Granted(clk, grants, in)
    IN CASE in.inter = "token" ->
              [result |-> [access_token |-> g.tok],
               cache |-> Store(cache, in.pick, g.tok, g.exp), grants |-> g.grants]
         [] in.inter = "err_both" ->
              [result |-> [error |-> "access_denied", error_description |-> "user_cancelled"],
               cache |-> cache, grants |-> grants]
         [] in.inter = "err_code" ->
              [result |-> [error |-> "access_denied"], cache |-> cache, grants |-> grants]
         [] in.inter = "err_desc" ->
              [result |-> [error_description |-> "user_cancelled"],
               cache |-> cache, grants |-> grants]
         [] OTHER -> [result |-> EmptyDict, cache |-> cache, grants |-> grants]

\* ------------------------------------------------------ auth.get_access_token

\* The record of one get_access_token() call before anything has happened.
AcqStart(client_id, tenant_id, file, grants) ==
    [client_id |-> client_id, tenant_id |-> tenant_id, file_before |-> file,
     load_raised |-> FALSE, accounts |-> <<>>,
     silent_called |-> FALSE, silent_scopes |-> <<>>, silent_account |-> "",
     silent_result |-> NoneResult,
     inter_called |-> FALSE, inter_calls |-> 0, inter_scopes |-> <<>>,
     inter_result |-> EmptyDict,
     save_called |-> FALSE, changed |-> FALSE, wrote |-> FALSE, save_raised |-> FALSE,
     outcome |-> "raise", token |-> "", exc |-> "", msg |-> <<>>,
     cache |-> EmptyCache, file |-> file, grants |-> grants]

\* if result and "access_token" in result
SilentHit(r) == ~r.isNone /\ r.d # EmptyDict /\ Has(r.d, "access_token")

\* SaveAndReturn with the write error caught and dropped.
SaveAndReturn_swallow(a, cache, token, in) ==
    LET sv == _save_cache(cache, a.file, in.io)
    IN [a EXCEPT !.save_called = TRUE, !.changed = cache.has_state_changed,
                 !.wrote = sv.wrote, !.save_raised = sv.raised, !.file = sv.file,
                 !.cache = cache, !.outcome = "return", !.token = token]

\* _save_cache(cache); return result["access_token"]
SaveAndReturn(a, cache, token, in) ==
    LET sv == _save_cache(cache, a.file, in.io)
        b == [a EXCEPT !.save_called = TRUE, !.changed = cache.has_state_changed,
                       !.wrote = sv.wrote, !.save_raised = sv.raised, !.file = sv.file,
                       !.cache = cache]
    IN IF sv.raised
       THEN [b EXCEPT !.outcome = "raise", !.exc = "OSError",
                      !.msg = <<"cannot write ", "token_cache.json">>]
       ELSE [b EXCEPT !.outcome = "return", !.token = token]

\* Interactive with the provider's error code looked up before its description.
Interactive_code_first(a, cache, clk, in) ==
    LET r == acquire_token_interactive(cache, clk, a.grants, in)
        b == [a EXCEPT !.inter_called = TRUE, !.inter_calls = a.inter_calls + 1,
                       !.inter_scopes = SCOPES,
                       !.inter_result = r.result, !.cache = r.cache, !.grants = r.grants]
        error == Get(r.result, "error", Get(r.result, "error_description", "Unknown error"))
    IN IF ~Has(r.result, "access_token")
       THEN [b EXCEPT !.outcome = "raise", !.exc = "RuntimeError",
                      !.msg = <<"Failed to acquire token: ", error>>]
       ELSE SaveAndReturn(b, r.cache, r.result["access_token"], in)

\* Interactive with one automatic retry: a login that gives no token is
\* followed at once by a second login.
Interactive_retries(a, cache, clk, in) ==
    LET r1 == acquire_token_interactive(cache, clk, a.grants, in)
        again == ~Has(r1.result, "access_token")
        r == IF again THEN acquire_token_interactive(r1.cache, clk, r1.grants, in) ELSE r1
        b == [a EXCEPT !.inter_called = TRUE,
                       !.inter_calls = a.inter_calls + (IF again THEN 2 ELSE 1),
                       !.inter_scopes = SCOPES,
                       !.inter_result = r.result, !.cache = r.cache, !.grants = r.grants]
        error == Get(r.result, "error_description", Get(r.result, "error", "Unknown error"))
    IN IF ~Has(r.result, "access_token")
       THEN [b EXCEPT !.outcome = "raise", !.exc = "RuntimeError",
                      !.msg = <<"Failed to acquire token: ", error>>]
       ELSE SaveAndReturn(b, r.cache, r.result["access_token"], in)

\* Lines 59-71: the interactive login, its error, the save and the return.
Interactive(a, cache, clk, in) ==
    LET r == acquire_token_interactive(cache, clk, a.grants, in)
        b == [a EXCEPT !.inter_called = TRUE, !.inter_calls = a.inter_calls + 1,
                       !.inter_scopes = SCOPES,
                       !.inter_result = r.result, !.cache = r.cache, !.grants = r.grants]
        error == Get(r.result, "error_description", Get(r.result, "error", "Unknown error"))
    IN IF ~Has(r.result, "access_token")
       THEN [b EXCEPT !.outcome = "raise", !.exc = "RuntimeError",
                      !.msg = <<"Failed to acquire token: ", error>>]
       ELSE SaveAndReturn(b, r.cache, r.result["access_token"], in)

\* Silent without the early return: the browser login follows every attempt.
Silent_falls_through(a, cache, clk, in) ==
    LET accounts == get_accounts(cache)
        r == acquire_token_silent(cache, accounts[1], clk, a.grants, in)
        b == [a EXCEPT !.silent_called = TRUE, !.silent_scopes = SCOPES,
                       !.silent_account = accounts[1],
                       !.silent_result = r.result, !.cache = r.cache, !.grants = r.grants]
    IN Interactive(b, r.cache, clk, in)

\* Silent asking for the scopes in another order than the login does.
Silent_other_scopes(a, cache, clk, in) ==
    LET accounts == get_accounts(cache)
        r == acquire_token_silent(cache, accounts[1], clk, a.grants, in)
        b == [a EXCEPT !.silent_called = TRUE,
                       !.silent_scopes = Tail(SCOPES) \o <<Head(SCOPES)>>,
                       !.silent_account = accounts[1],
                       !.silent_result = r.result, !.cache = r.cache, !.grants = r.grants]
    IN IF SilentHit(r.result)
       THEN SaveAndReturn(b, r.cache, r.result.d["access_token"], in)
       ELSE Interactive(b, r.cache, clk, in)

\* Lines 52-57: the silent attempt against the first account.
Silent(a, cache, clk, in) ==
    LET accounts == get_accounts(cache)
        r == acquire_token_silent(cache, accounts[1], clk, a.grants, in)
        b == [a EXCEPT !.silent_called = TRUE, !.silent_scopes = SCOPES,
                       !.silent_account = accounts[1],
                       !.silent_result = r.result, !.cache = r.cache, !.grants = r.grants]
    IN IF SilentHit(r.result)
       THEN SaveAndReturn(b, r.cache, r.result.d["access_token"], in)
       ELSE Interactive(b, r.cache, clk, in)

\* auth.py get_access_token: the record of the whole call, with the file and
\* the provider's grants as it leaves them.
get_access_token(client_id, tenant_id, file, clk, grants, in) ==
    LET a == AcqStart(client_id, tenant_id, file, grants)
        ld == _load_cache(file)
        accounts == get_accounts(ld.cache)
        b == [a EXCEPT !.accounts = accounts, !.cache = ld.cache]
    IN IF ld.raised
       THEN [a EXCEPT !.load_raised = TRUE, !.outcome = "raise", !.exc = "ValueError",
                      !.msg = <<"cannot parse ", "token_cache.json">>]
       ELSE IF accounts # <<>>
       THEN Silent(b, ld.cache, clk, in)
       ELSE Interactive(b, ld.cache, clk, in)

\* ------------------------------------------------------------- server.py

VARIABLES
    pc,              \* "boot", "main", "serving" or "exited"
    launch,          \* "main": run as a script; "imported": loaded by a host
    MS_CLIENT_ID,    \* os.environ.get("MS_CLIENT_ID"): <<>> is None
    MS_TENANT_ID,    \* os.environ.get("MS_TENANT_ID"): <<>> is None
    exit_code,       \* <<>> while running, <<n>> once the process has ended
    _access_token,   \* the token slot: <<>> is None, <<s>> the string s
    file,            \* the token cache file on disk
    now,             \* the clock
    grants,          \* expiries of the access tokens issued in this run
    acq,             \* the get_access_token() call of the latest step, if any
    nAcquire,        \* number of get_access_token() calls so far
    nInteractive,    \* number of acquire_token_interactive() calls so far
    got,             \* the _get_token() call of the latest step, if any
    tasks,           \* the tool invocations awaiting the Graph API: the bag of
                     \* the Authorization headers of their requests
    reply            \* the tool invocation that ended in the latest step, if any

vars == <<pc, launch, MS_CLIENT_ID, MS_TENANT_ID, exit_code, _access_token, file,
          now, grants, acq, nAcquire, nInteractive, got, tasks, reply>>

\* Expiry of the token cached by an earlier run of the program.
OldExp == 1

Entry(home, tok, exp) == [home |-> home, tok |-> tok, exp |-> exp]

OnDisk(entries) == [exists |-> TRUE, bytes |-> SerializeEntries(entries)]

\* Cache files a process may find when it starts.
InitFiles ==
    { NoFile,
      OnDisk(<<>>),
      OnDisk(<<Entry("alice", "old1", OldExp)>>),
      OnDisk(<<Entry("alice", "", 0)>>),
      OnDisk(<<Entry("bob", "", 0), Entry("alice", "old1", OldExp)>>),
      [exists |-> TRUE, bytes |-> <<"acct", "alice">>] }

\* Values of an environment variable: unset, empty, set.
EnvValues == {<<>>, <<"">>, <<"abc">>}

\* When the access token tok stops being accepted ("" never is).
ExpOf(tok, gr) ==
    IF tok = "old1" THEN OldExp
    ELSE IF \E n \in 1..Len(gr) : TokenNames[n] = tok
    THEN gr[CHOOSE n \in 1..Len(gr) : TokenNames[n] = tok]
    ELSE 0

NoAcq == AcqStart(<<>>, <<>>, NoFile, <<>>) @@ [called |-> FALSE]

NoGet == [called |-> FALSE, slot_before |-> <<>>, acquired |-> FALSE, raised |-> FALSE,
          value |-> <<>>]

NoReply == [how |-> "", acquire_raised |-> FALSE, text |-> <<>>]

Init ==
    /\ pc = "boot"
    /\ launch \in {"main", "imported"}
    /\ MS_CLIENT_ID \in EnvValues
    /\ MS_TENANT_ID \in EnvValues
    /\ exit_code = <<>>
    /\ _access_token = <<>>
    /\ file \in InitFiles
    /\ now = 0
    /\ grants = <<>>
    /\ acq = NoAcq
    /\ nAcquire = 0
    /\ nInteractive = 0
    /\ got = NoGet
    /\ tasks = EmptyBag
    /\ reply = NoReply

\* _get_token without the test of the slot: it acquires on every call.
_get_token_always(slot, client_id, tenant_id, f, clk, gr, in) ==
    LET a == get_access_token(client_id, tenant_id, f, clk, gr, in)
    IN IF a.outcome = "raise"
       THEN [acquired |-> TRUE, a |-> a, raised |-> TRUE, slot |-> slot, value |-> <<>>]
       ELSE [acquired |-> TRUE, a |-> a, raised |-> FALSE,
             slot |-> <<a.token>>, value |-> <<a.token>>]

\* _get_token without the global statement: the result is not kept.
_get_token_forgets(slot, client_id, tenant_id, f, clk, gr, in) ==
    IF ~Truthy(slot)
    THEN LET a == get_access_token(client_id, tenant_id, f, clk, gr, in)
         IN IF a.outcome = "raise"
            THEN [acquired |-> TRUE, a |-> a, raised |-> TRUE, slot |-> slot, value |-> <<>>]
            ELSE [acquired |-> TRUE, a |-> a, raised |-> FALSE,
                  slot |-> slot, value |-> <<a.token>>]
    ELSE [acquired |-> FALSE, a |-> AcqStart(client_id, tenant_id, f, gr),
          raised |-> FALSE, slot |-> slot, value |-> slot]

\* server.py _get_token: the slot after the call, whether it raised, the
\* value it returned, and the get_access_token() call it made, if any.
_get_token(slot, client_id, tenant_id, f, clk, gr, in) ==
    IF ~Truthy(slot)
    THEN LET a == get_access_token(client_id, tenant_id, f, clk, gr, in)
         IN IF a.outcome = "raise"
            THEN [acquired |-> TRUE, a |-> a, raised |-> TRUE, slot |-> slot, value |-> <<>>]
            ELSE [acquired |-> TRUE, a |-> a, raised |-> FALSE,
                  slot |-> <<a.token>>, value |-> <<a.token>>]
    ELSE [acquired |-> FALSE, a |-> AcqStart(client_id, tenant_id, f, gr),
          raised |-> FALSE, slot |-> slot, value |-> slot]

\* A step that makes no call of _get_token().
NoCall == acq' = NoAcq /\ got' = NoGet

\* The effect of one _get_token() call g on the state outside the caller.
Got(g) ==
    /\ _access_token' = g.slot
    /\ got' = [called |-> TRUE, slot_before |-> _access_token, acquired |-> g.acquired,
               raised |-> g.raised, value |-> g.value]
    /\ IF g.acquired
       THEN /\ acq' = g.a @@ [called |-> TRUE]
            /\ file' = g.a.file
            /\ grants' = g.a.grants
            /\ nAcquire' = nAcquire + 1
            /\ nInteractive' = nInteractive + g.a.inter_calls
       ELSE /\ acq' = NoAcq
            /\ UNCHANGED <<file, grants, nAcquire, nInteractive>>

\* The calls of _get_token() the model explores: those that acquire stop
\* after MaxAcquire acquisitions.
InBudget == Truthy(_access_token) \/ nAcquire < MaxAcquire

\* The inputs a call of _get_token() can read.
InputsNow == IF Truthy(_access_token) THEN {DefaultInput} ELSE Inputs

\* Configure with the test of the client id alone.
Configure_client_only ==
    /\ pc = "boot"
    /\ IF MS_CLIENT_ID = <<>> \/ MS_CLIENT_ID = <<"">>
       THEN pc' = "exited" /\ exit_code' = <<1>>
       ELSE pc' = (IF launch = "main" THEN "main" ELSE "serving") /\ UNCHANGED exit_code
    /\ NoCall
    /\ UNCHANGED <<launch, MS_CLIENT_ID, MS_TENANT_ID, _access_token, file, now, grants,
                   nAcquire, nInteractive, tasks, reply>>

\* server.py lines 17-23: the configuration check at module load.
Configure ==
    /\ pc = "boot"
    /\ IF MS_CLIENT_ID = <<>> \/ MS_CLIENT_ID = <<"">>
          \/ MS_TENANT_ID = <<>> \/ MS_TENANT_ID = <<"">>
       THEN pc' = "exited" /\ exit_code' = <<1>>
       ELSE pc' = (IF launch = "main" THEN "main" ELSE "serving") /\ UNCHANGED exit_code
    /\ NoCall
    /\ UNCHANGED <<launch, MS_CLIENT_ID, MS_TENANT_ID, _access_token, file, now, grants,
                   nAcquire, nInteractive, tasks, reply>>

\* server.py lines 565-567: _get_token() and then mcp.run(); an exception
\* of _get_token() ends the process.
Main ==
    /\ pc = "main"
    /\ InBudget
    /\ \E in \in InputsNow :
         LET g == _get_token(_access_token, MS_CLIENT_ID, MS_TENANT_ID, file, now, grants, in)
         IN /\ Got(g)
            /\ IF g.raised
               THEN pc' = "exited" /\ exit_code' = <<1>>
               ELSE pc' = "serving" /\ UNCHANGED exit_code
    /\ UNCHANGED <<launch, MS_CLIENT_ID, MS_TENANT_ID, now, tasks, reply>>

\* server.py _handle_error: the text for an exception e.
_handle_error(e) ==
    IF e.type = "HTTPStatusError"
    THEN CASE e.status = 401 ->
                <<"Error: Authentication expired. Please restart the MCP server to re-authenticate.">>
           [] e.status = 403 ->
                <<"Error: Permission denied. Check the app's API permissions in Azure AD.">>
           [] e.status = 404 -> <<"Error: Resource not found. Please verify the ID.">>
           [] e.status = 429 ->
                <<"Error: Rate limited by Microsoft. Please wait a moment and retry.">>
           [] OTHER -> <<"Error: Microsoft Graph API returned status ", e.code, ": ", e.text>>
    ELSE <<"Error: ", e.type, ": ", e.text>>

\* The tools of the server the model serves.
Tools == {"ms365_list_emails", "ms365_get_profile"}

\* Answers to a request: an HTTP status, or 0 when the connection fails.
Statuses == {0, 200, 204, 401, 403, 404, 429, 500}

\* graph_client.py graph_request, up to its await: the Authorization header.
Authorization(access_token) == <<"Bearer ", access_token>>

\* graph_client.py graph_request, from the response on: raise_for_status(),
\* then the body of the response or {"status": "success"} for an empty one.
graph_request(status) ==
    CASE status = 0 ->
           [raised |-> TRUE,
            e |-> [type |-> "ConnectError", status |-> 0, code |-> "", text |-> "connection failed"]]
      [] status = 200 -> [raised |-> FALSE, data |-> "value"]
      [] status = 204 -> [raised |-> FALSE, data |-> "success"]
      [] OTHER ->
           [raised |-> TRUE,
            e |-> [type |-> "HTTPStatusError", status |-> status,
                   code |-> IF status = 500 THEN "500" ELSE "4xx", text |-> "body"]]

\* A tool handler up to its first await: token = _get_token() ahead of the
\* try block, the parameter checks of ms365_list_emails, the request. An
\* exception of _get_token() leaves the handler; a failed check returns.
ToolCall ==
    /\ pc = "serving"
    /\ BagCardinality(tasks) < NTasks
    /\ InBudget
    /\ \E in \in InputsNow :
         LET g == _get_token(_access_token, MS_CLIENT_ID, MS_TENANT_ID, file, now, grants, in)
         IN /\ Got(g)
            /\ IF g.raised
               THEN /\ reply' = [how |-> "escaped", acquire_raised |-> TRUE,
                                 text |-> <<g.a.exc, ": ">> \o g.a.msg]
                    /\ UNCHANGED tasks
               ELSE \E tool \in Tools, valid \in BOOLEAN :
                      IF tool = "ms365_list_emails" /\ ~valid
                      THEN /\ reply' = [how |-> "returned", acquire_raised |-> FALSE,
                                        text |-> <<"Error: 'top' must be between 1 and 50.">>]
                           /\ UNCHANGED tasks
                      ELSE /\ tasks' = tasks (+) SetToBag({Authorization(g.value[1])})
                           /\ reply' = NoReply
    /\ UNCHANGED <<pc, launch, MS_CLIENT_ID, MS_TENANT_ID, exit_code, now>>

\* ToolResponse that recovers from a 401: it empties the slot, so that the
\* next _get_token() acquires a new token.
ToolResponse_drops_token ==
    /\ \E h \in BagToSet(tasks), status \in Statuses :
         LET r == graph_request(status)
         IN /\ ExpOf(h[2], grants) <= now => status \in {0, 401}
            /\ reply' = [how |-> "returned", acquire_raised |-> FALSE,
                         text |-> IF r.raised THEN _handle_error(r.e) ELSE <<r.data>>]
            /\ tasks' = tasks (-) SetToBag({h})
            /\ _access_token' = IF status = 401 THEN <<>> ELSE _access_token
    /\ NoCall
    /\ UNCHANGED <<pc, launch, MS_CLIENT_ID, MS_TENANT_ID, exit_code, file,
                   now, grants, nAcquire, nInteractive>>

\* A tool handler from the response on: the text it returns, or the text of
\* _handle_error for the exception of graph_request. The API answers 401 to
\* a token that is empty or has expired.
ToolResponse ==
    /\ \E h \in BagToSet(tasks), status \in Statuses :
         LET r == graph_request(status)
         IN /\ ExpOf(h[2], grants) <= now => status \in {0, 401}
            /\ reply' = [how |-> "returned", acquire_raised |-> FALSE,
                         text |-> IF r.raised THEN _handle_error(r.e) ELSE <<r.data>>]
            /\ tasks' = tasks (-) SetToBag({h})
    /\ NoCall
    /\ UNCHANGED <<pc, launch, MS_CLIENT_ID, MS_TENANT_ID, exit_code, _access_token, file,
                   now, grants, nAcquire, nInteractive>>

\* Time passes while the process runs.
Tick ==
    /\ pc \in {"main", "serving"}
    /\ now < MaxTime
    /\ now' = now + 1
    /\ NoCall
    /\ reply' = NoReply
    /\ UNCHANGED <<pc, launch, MS_CLIENT_ID, MS_TENANT_ID, exit_code, _access_token, file,
                   grants, nAcquire, nInteractive, tasks>>

Next ==
    \/ Configure
    \/ Main
    \/ ToolCall
    \/ ToolResponse
    \/ Tick

Spec == Init /\ [][Next]_vars

\* ------------------------------------------------------------ properties

\* Whether the text msg, a sequence of pieces, contains the piece s.
Contains(msg, s) == \E k \in DOMAIN msg : msg[k] = s

\* Whether an Optional[dict] result carries an access token.
CarriesToken(r) == ~r.isNone /\ "access_token" \in DOMAIN r.d

\* C1: once _get_token() has returned a token, every later _get_token()
\* returns that same string and makes no call of get_access_token(): the
\* slot, the count of acquisitions and the count of browser logins stay as
\* they are.
C1_HeldTokenIsReturned ==
    /\ [](got.called /\ Truthy(got.slot_before)
            => /\ ~got.acquired /\ ~got.raised /\ ~acq.called
               /\ got.value = got.slot_before)
    /\ [][Truthy(_access_token)
            => /\ _access_token' = _access_token
               /\ nAcquire' = nAcquire
               /\ nInteractive' = nInteractive
               /\ ~acq'.called]_vars

\* C1 witness: a _get_token() call made while the slot held a token.
C1_Witness == got.called /\ Truthy(got.slot_before) /\ got.value = _access_token

\* C2: a request sent to the Graph API never carries an access token that
\* has expired when it is sent.
C2_NoExpiredTokenSent ==
    [][\A h \in BagToSet(tasks') :
         (CopiesIn(h, tasks') > CopiesIn(h, tasks) /\ h[2] # "")
         => ExpOf(h[2], grants') > now']_vars

\* C3 as stated: get_access_token() is invoked at most once in a process.
C3_AcquireAtMostOnce == nAcquire <= 1

\* C3 amended: get_access_token() is invoked only while the slot holds no
\* token, and an acquisition leaves a token in the slot exactly when it
\* returned a non-empty one, which is then the token held: at most one
\* acquisition of a process returns a token, and none follows it.
C3_NoAcquireAfterSuccess ==
    /\ [](acq.called
            => /\ Truthy(_access_token) <=> (acq.outcome = "return" /\ acq.token # "")
               /\ Truthy(_access_token) => _access_token = <<acq.token>>)
    /\ [](Truthy(_access_token) => nAcquire >= 1)
    /\ [][nAcquire' # nAcquire
            => /\ ~Truthy(_access_token)
               /\ nAcquire' = nAcquire + 1
               /\ acq'.called]_vars

\* C3 witness: a second acquisition, made after one that gave no token, has
\* returned a token.
C3_Witness == acq.called /\ nAcquire = 2 /\ Truthy(_access_token)

\* C4 as stated: after the cache has loaded, the browser login is made iff
\* there is no account or the silent result carries no token; and a silent
\* result with a token is what get_access_token() returns, with no login.
C4_SilentTokenIsReturned ==
    (acq.called /\ ~acq.load_raised)
    => /\ acq.inter_called <=> (acq.accounts = <<>> \/ ~CarriesToken(acq.silent_result))
       /\ (acq.silent_called /\ CarriesToken(acq.silent_result))
          => /\ ~acq.inter_called
             /\ acq.outcome = "return"
             /\ acq.token = acq.silent_result.d["access_token"]

\* C4 amended: the browser login is made iff there is no account or the
\* silent result, asked for the first account, carries no token; after a
\* silent result with a token there is no login, and get_access_token()
\* returns exactly that token unless writing the cache fails, in which case
\* it raises the I/O error.
C4_InteractiveIffSilentMiss ==
    (acq.called /\ ~acq.load_raised)
    => /\ acq.inter_called <=> (acq.accounts = <<>> \/ ~CarriesToken(acq.silent_result))
       /\ acq.silent_called <=> acq.accounts # <<>>
       /\ acq.silent_called => acq.silent_account = acq.accounts[1]
       /\ (acq.silent_called /\ CarriesToken(acq.silent_result))
          => /\ ~acq.inter_called
             /\ IF acq.save_raised
                THEN acq.outcome = "raise" /\ acq.exc = "OSError"
                ELSE /\ acq.outcome = "return"
                     /\ acq.token = acq.silent_result.d["access_token"]

\* C4 witness: a silent result with a token was returned by a call on a
\* cache of two accounts.
C4_Witness ==
    /\ acq.called /\ acq.silent_called /\ CarriesToken(acq.silent_result)
    /\ Len(acq.accounts) = 2 /\ acq.outcome = "return" /\ ~acq.inter_called

\* C5: with no cache file, loading raises nothing and gives the empty cache,
\* and get_access_token() goes to the browser login with no silent attempt.
C5_ColdStart ==
    (acq.called /\ ~acq.file_before.exists)
    => /\ ~acq.load_raised
       /\ acq.exc # "ValueError"
       /\ acq.accounts = <<>>
       /\ ~acq.silent_called
       /\ acq.inter_called

\* C5 witness: an acquisition that found no cache file and returned a token.
C5_Witness == acq.called /\ ~acq.file_before.exists /\ acq.outcome = "return"

\* C6: a browser login whose result has no access token makes
\* get_access_token() raise, returning no token, with a message that
\* contains the error_description if there is one, else the error code if
\* there is one, else "Unknown error".
C6_AcquisitionError ==
    (acq.called /\ acq.inter_called /\ ~("access_token" \in DOMAIN acq.inter_result))
    => /\ acq.outcome = "raise"
       /\ acq.exc = "RuntimeError"
       /\ acq.token = ""
       /\ ~acq.save_called
       /\ IF "error_description" \in DOMAIN acq.inter_result
          THEN Contains(acq.msg, acq.inter_result["error_description"])
          ELSE IF "error" \in DOMAIN acq.inter_result
          THEN Contains(acq.msg, acq.inter_result["error"])
          ELSE Contains(acq.msg, "Unknown error")

\* C6 witness: a failed login whose result has both a code and a description.
C6_Witness ==
    /\ acq.called /\ acq.inter_called
    /\ DOMAIN acq.inter_result = {"error", "error_description"}
    /\ Contains(acq.msg, "user_cancelled")

\* C7: after a silent acquisition that gave a token and left the cache
\* unchanged, the cache file is as it was: not written, not created.
C7_NoNeedlessWrite ==
    (acq.called /\ acq.silent_called /\ CarriesToken(acq.silent_result)
       /\ acq.save_called /\ ~acq.changed)
    => /\ ~acq.wrote
       /\ acq.file = acq.file_before
       /\ file = acq.file_before

\* C7 witness: a silent acquisition returned the cached token, the cache
\* unchanged.
C7_Witness ==
    /\ acq.called /\ acq.silent_called /\ CarriesToken(acq.silent_result)
    /\ acq.save_called /\ ~acq.changed /\ acq.outcome = "return"

\* C8: after get_access_token() has returned with the cache changed, the
\* file exists and holds the serialized cache, and loading it afresh gives
\* a cache with the same accounts in the same order, at least one.
C8_RoundTrip ==
    (acq.called /\ acq.outcome = "return" /\ acq.changed)
    => /\ file.exists
       /\ file.bytes = serialize(acq.cache)
       /\ LET fresh == _load_cache(file)
          IN /\ ~fresh.raised
             /\ fresh.cache.entries = acq.cache.entries
             /\ get_accounts(fresh.cache) = get_accounts(acq.cache)
             /\ get_accounts(fresh.cache) # <<>>

\* C8 witness: a login from a cold start as a second account after the
\* first, so that the file written holds two accounts.
C8_Witness ==
    /\ acq.called /\ acq.outcome = "return" /\ acq.changed /\ acq.inter_called
    /\ Len(acq.cache.entries) = 2 /\ nAcquire = 2

\* C9: when writing the cache file fails, get_access_token() and
\* _get_token() raise the I/O error: no token is returned and the slot stays
\* as empty as it was.
C9_WriteErrorPropagates ==
    (acq.called /\ acq.save_raised)
    => /\ acq.outcome = "raise"
       /\ acq.exc = "OSError"
       /\ acq.token = ""
       /\ got.acquired /\ got.raised /\ got.value = <<>>
       /\ _access_token = got.slot_before
       /\ ~Truthy(_access_token)

\* C9 witness: the write failed after a silent refresh.
C9_Witness ==
    acq.called /\ acq.save_raised /\ acq.silent_called /\ ~acq.inter_called

\* C10: an error of token acquisition during a tool invocation ends as
\* error text returned by the tool, not as an exception leaving the handler.
C10_AcquireErrorBecomesText ==
    reply.acquire_raised => reply.how = "returned" /\ reply.text[1] = "Error: "

\* Whether an identifier of the configuration is unset or empty.
C11_Missing == ~Truthy(MS_CLIENT_ID) \/ ~Truthy(MS_TENANT_ID)

\* C11: with the client id or the tenant id unset or empty, the only step of
\* the process is its exit with a non-zero code: the cache file is never
\* read or written, no token is acquired, no request is sent and no tool is
\* served; and every get_access_token() call is given two non-empty ids.
C11_MissingIdIsFatal ==
    /\ [](C11_Missing
            => /\ pc \in {"boot", "exited"}
               /\ pc = "exited" => exit_code # <<>> /\ exit_code[1] # 0
               /\ nAcquire = 0 /\ nInteractive = 0
               /\ ~acq.called /\ ~got.called
               /\ _access_token = <<>>
               /\ grants = <<>>
               /\ tasks = EmptyBag
               /\ reply = NoReply)
    /\ [](acq.called => Truthy(acq.client_id) /\ Truthy(acq.tenant_id))
    /\ [][C11_Missing
            => /\ pc = "boot" /\ pc' = "exited"
               /\ exit_code' # <<>> /\ exit_code'[1] # 0
               /\ file' = file]_vars

\* C11 witness: the process has exited with code 1 on a configuration that
\* has a client id and an empty tenant id.
C11_Witness ==
    /\ pc = "exited" /\ exit_code = <<1>>
    /\ Truthy(MS_CLIENT_ID) /\ MS_TENANT_ID = <<"">>
    /\ nAcquire = 0

\* The text a tool returns for a 401 response.
C12_Text401 ==
    <<"Error: Authentication expired. Please restart the MCP server to re-authenticate.">>

\* C12: the step in which a tool returns the text for a 401 response makes
\* no call of _get_token() or get_access_token() and leaves the slot, the
\* cache file and the counts of acquisitions and logins as they are; the
\* token of the answered request, if not empty, is the one the slot holds. A
\* request whose token has expired is answered with that text (or with the
\* text of a connection failure). And while the slot holds a token, every
\* step keeps it, makes no acquisition, and every request it sends carries
\* that token: so does every tool call after the 401.
C12_NoReacquireOn401 ==
    /\ [][\A h \in BagToSet(tasks) :
            CopiesIn(h, tasks') < CopiesIn(h, tasks)
            => /\ reply'.how = "returned"
               /\ ExpOf(h[2], grants) <= now
                  => reply'.text \in {C12_Text401,
                                      <<"Error: ", "ConnectError", ": ", "connection failed">>}
               /\ reply'.text = C12_Text401
                  => /\ _access_token' = _access_token
                     /\ ~got'.called /\ ~acq'.called
                     /\ nAcquire' = nAcquire /\ nInteractive' = nInteractive
                     /\ file' = file /\ grants' = grants
                     /\ h[2] # "" => _access_token' = <<h[2]>>]_vars
    /\ [][Truthy(_access_token)
            => /\ _access_token' = _access_token
               /\ ~acq'.called
               /\ \A h \in BagToSet(tasks') :
                    CopiesIn(h, tasks') > CopiesIn(h, tasks)
                    => h = <<"Bearer ", _access_token[1]>>]_vars

\* C12 witness: a tool has returned the 401 text, the slot holds the token
\* of the one acquisition of the process, and a request with that token is
\* in flight.
C12_Witness ==
    /\ reply.text = C12_Text401
    /\ Truthy(_access_token) /\ nAcquire = 1
    /\ CopiesIn(<<"Bearer ", _access_token[1]>>, tasks) = 1

\* C13: a get_access_token() call makes at most one browser login; a login
\* that gives no token makes the call and _get_token() raise, with the slot
\* as empty as it was; and the count of logins grows by one at a time, only
\* in a step that calls _get_token(), which after a first login is a tool
\* call.
C13_NoAutomaticRetry ==
    /\ [](acq.called
            => /\ acq.inter_calls <= 1
               /\ acq.inter_called <=> acq.inter_calls = 1)
    /\ []((acq.called /\ acq.inter_called /\ ~("access_token" \in DOMAIN acq.inter_result))
            => /\ acq.outcome = "raise" /\ acq.exc = "RuntimeError"
               /\ got.called /\ got.acquired /\ got.raised /\ got.value = <<>>
               /\ _access_token = got.slot_before
               /\ ~Truthy(_access_token)
               /\ pc = "exited" \/ reply.how = "escaped")
    /\ [][nInteractive' # nInteractive
            => /\ nInteractive' = nInteractive + 1
               /\ nAcquire' = nAcquire + 1
               /\ got'.called /\ got'.acquired /\ acq'.called /\ acq'.inter_called
               /\ ~Truthy(_access_token)
               /\ nInteractive >= 1 => pc = "serving" /\ pc' = "serving"]_vars

\* C13 witness: a tool call has made the second browser login of the
\* process, the first having given no token, and it has failed as well.
C13_Witness ==
    /\ nInteractive = 2 /\ nAcquire = 2
    /\ acq.called /\ acq.inter_called /\ acq.outcome = "raise" /\ acq.exc = "RuntimeError"
    /\ _access_token = <<>> /\ reply.how = "escaped"

\* C14: in every get_access_token() call, the first of a process or a later
\* one, the silent acquisition and the browser login it makes are each given
\* the scopes Mail.Read, Mail.ReadWrite, Mail.Send, Calendars.Read,
\* User.Read, in this order: the same sequence for both.
C14_ScopeConsistency ==
    acq.called
    => LET scopes == <<"Mail.Read", "Mail.ReadWrite", "Mail.Send", "Calendars.Read",
                       "User.Read">>
       IN /\ acq.silent_called => acq.silent_scopes = scopes
          /\ acq.inter_called => acq.inter_scopes = scopes
          /\ (acq.silent_called /\ acq.inter_called) => acq.silent_scopes = acq.inter_scopes
          /\ acq.silent_called \/ acq.inter_called \/ acq.load_raised

\* C14 witness: the second get_access_token() call of a process has made a
\* silent acquisition and, after it, a browser login.
C14_Witness ==
    acq.called /\ nAcquire = 2 /\ acq.silent_called /\ acq.inter_called

\* C15: first-time token requests are serialized. A handler runs
\* _get_token() to its end before another handler starts, so two browser
\* logins never overlap; what is left to state is that at most one browser
\* login is launched before the slot is populated: a login after the first
\* is launched only with a value in the slot.
C15_OneLoginBeforeSlotFilled ==
    [][(nInteractive' > nInteractive /\ nInteractive >= 1) => _access_token # <<>>]_vars
====
